---- MODULE Spec2Model ----
(***************************************************************************)
(* Differentiable stack and soft-indexing operators (forward pass).        *)
(*                                                                         *)
(* A tensor is a record [shape, data]: shape is the tuple of dimensions    *)
(* and data the row-major flattening of the entries.  All entries of the   *)
(* model are small integers, on which float32 arithmetic is exact.  An     *)
(* operation TensorFlow rejects (InvalidArgumentError) yields ShapeError,  *)
(* and every operation applied to ShapeError yields ShapeError.            *)
(***************************************************************************)
EXTENDS Integers, Sequences, FiniteSets, TLC

\* Bounds of the model.
Bandwidth == 2
Width == 2
MaxVal == 2
MaxWeight == 2
MaxOps == 5
MaxLen == 3
Resolution == 4

----------------------------------------------------------------------------
\* Tensors: shapes, row-major addressing

Tensor(shape, data) == [shape |-> shape, data |-> data]

Scalar(v) == Tensor(<<>>, <<v>>)

ShapeError == [shape |-> <<-1>>, data |-> <<>>]

IsError(t) == t.shape = <<-1>>

RECURSIVE Prod(_)
Prod(s) == IF s = <<>> THEN 1 ELSE Head(s) * Prod(Tail(s))

Stride(shape, i) == Prod(SubSeq(shape, i + 1, Len(shape)))

Unravel(k, shape) ==
    [i \in 1..Len(shape) |-> (k \div Stride(shape, i)) % shape[i]]

RECURSIVE RavelFrom(_, _, _)
RavelFrom(idx, shape, i) ==
    IF i > Len(shape) THEN 0
    ELSE idx[i] * Stride(shape, i) + RavelFrom(idx, shape, i + 1)

Ravel(idx, shape) == RavelFrom(idx, shape, 1)

At(t, idx) == t.data[Ravel(idx, t.shape) + 1]

tf_rank(t) == Len(t.shape)

tf_shape(t) == t.shape

----------------------------------------------------------------------------
\* Elementwise arithmetic with NumPy-style broadcasting

PadShape(s, r) ==
    [i \in 1..r |-> IF i <= r - Len(s) THEN 1 ELSE s[i - (r - Len(s))]]

Broadcastable(sa, sb) ==
    \A i \in 1..Len(sa) : sa[i] = sb[i] \/ sa[i] = 1 \/ sb[i] = 1

BroadcastShape(sa, sb) ==
    [i \in 1..Len(sa) |-> IF sa[i] = 1 THEN sb[i] ELSE sa[i]]

Pick(t, ps, idx) ==
    t.data[Ravel([i \in 1..Len(ps) |-> IF ps[i] = 1 THEN 0 ELSE idx[i]], ps) + 1]

Apply(op, p, q) ==
    CASE op = "mul" -> p * q
      [] op = "add" -> p + q
      [] op = "sub" -> p - q

ElementwiseOf(op, a, b) ==
    IF IsError(a) \/ IsError(b) THEN ShapeError
    ELSE LET r  == IF Len(a.shape) > Len(b.shape) THEN Len(a.shape) ELSE Len(b.shape)
             sa == PadShape(a.shape, r)
             sb == PadShape(b.shape, r)
         IN  IF ~Broadcastable(sa, sb) THEN ShapeError
             ELSE LET s == BroadcastShape(sa, sb)
                  IN  Tensor(s, [k \in 1..Prod(s) |->
                                    Apply(op, Pick(a, sa, Unravel(k - 1, s)),
                                              Pick(b, sb, Unravel(k - 1, s)))])

\* The operands are evaluated once, then combined
Elementwise(op, a, b) ==
    CHOOSE t \in {ElementwiseOf(op, x, y) : x \in {a}, y \in {b}} : TRUE

tf_multiply(a, b) == Elementwise("mul", a, b)

tf_add(a, b) == Elementwise("add", a, b)

tf_subtract(a, b) == Elementwise("sub", a, b)

----------------------------------------------------------------------------
\* Shape and movement operations

tf_zeros(shape) == Tensor(shape, [k \in 1..Prod(shape) |-> 0])

tf_one_hot(i, depth) == Tensor(<<depth>>, [k \in 1..depth |-> IF k - 1 = i THEN 1 ELSE 0])

\* tf.expand_dims(t, -1)
tf_expand_dims_last(t) ==
    IF IsError(t) THEN ShapeError ELSE Tensor(Append(t.shape, 1), t.data)

\* tf.expand_dims(t, 0)
tf_expand_dims_first(t) ==
    IF IsError(t) THEN ShapeError ELSE Tensor(<<1>> \o t.shape, t.data)

\* tf.transpose(t): the dimensions in reverse order
tf_transpose(t) ==
    IF IsError(t) THEN ShapeError
    ELSE LET r == Len(t.shape)
             s == [i \in 1..r |-> t.shape[r + 1 - i]]
         IN  Tensor(s, [k \in 1..Prod(s) |->
                           LET idx == Unravel(k - 1, s)
                           IN  At(t, [i \in 1..r |-> idx[r + 1 - i]])])

\* tf.tile(t, multiples): multiples must have one entry per dimension of t
tf_tile(t, multiples) ==
    IF IsError(t) \/ Len(multiples) # Len(t.shape) THEN ShapeError
    ELSE LET r == Len(t.shape)
             s == [i \in 1..r |-> t.shape[i] * multiples[i]]
         IN  Tensor(s, [k \in 1..Prod(s) |->
                           LET idx == Unravel(k - 1, s)
                           IN  At(t, [i \in 1..r |-> idx[i] % t.shape[i]])])

\* tf.reshape(t, shape): the same entries in the same row-major order
tf_reshape(t, shape) ==
    IF IsError(t) \/ Prod(shape) # Prod(t.shape) THEN ShapeError
    ELSE Tensor(shape, t.data)

\* A shift that drops what leaves the end and fills with zeros
tf_roll_no_wrap(t, shift) ==
    IF IsError(t) \/ Len(t.shape) = 0 THEN ShapeError
    ELSE LET n == t.shape[1]
         IN  Tensor(t.shape, [k \in 1..Prod(t.shape) |->
                                 LET idx == Unravel(k - 1, t.shape)
                                     j   == idx[1] - shift
                                 IN  IF j \in 0..(n - 1)
                                     THEN At(t, [idx EXCEPT ![1] = j])
                                     ELSE 0])

\* tf.roll(t, shift, axis=0): entry i moves to (i + shift) mod n
tf_roll(t, shift) ==
    IF IsError(t) \/ Len(t.shape) = 0 THEN ShapeError
    ELSE LET n == t.shape[1]
         IN  Tensor(t.shape, [k \in 1..Prod(t.shape) |->
                                 LET idx == Unravel(k - 1, t.shape)
                                 IN  At(t, [idx EXCEPT ![1] = (idx[1] - shift) % n])])

RECURSIVE SumTo(_, _)
SumTo(f, n) == IF n = 0 THEN 0 ELSE f[n] + SumTo(f, n - 1)

\* tf.reduce_sum(t, axis=0)
tf_reduce_sum(t) ==
    IF IsError(t) \/ Len(t.shape) = 0 THEN ShapeError
    ELSE LET n == t.shape[1]
             s == Tail(t.shape)
         IN  Tensor(s, [k \in 1..Prod(s) |->
                           SumTo([i \in 1..n |-> At(t, <<i - 1>> \o Unravel(k - 1, s))], n)])

\* tf.unstack(t): the slices of t along axis 0
tf_unstack(t) ==
    LET s  == Tail(t.shape)
        sz == Prod(s)
    IN  [i \in 1..t.shape[1] |-> Tensor(s, SubSeq(t.data, (i - 1) * sz + 1, i * sz))]

\* t[i] for an integer i
Row(t, i) == tf_unstack(t)[i + 1]

----------------------------------------------------------------------------
\* Soft indexing operators

\* The lookup without the expand_dims of the weight vector
superposition_lookup_no_expand(arr, indices) ==
    LET arr1   == IF tf_rank(arr) = 1 THEN tf_expand_dims_last(arr) ELSE arr
        result == tf_multiply(arr1, indices)
    IN  tf_reduce_sum(result)

superposition_lookup_vectored(arr, indices) ==
    LET arr1     == IF tf_rank(arr) = 1 THEN tf_expand_dims_last(arr) ELSE arr
        indices1 == tf_expand_dims_last(indices)
        result   == tf_multiply(arr1, indices1)
    IN  tf_reduce_sum(result)

\* The write without the negative mask: the element is added to the row
assign_index_additive(arr, index, element) ==
    LET arr_shape     == tf_shape(arr)
        pos_mask      == tf_transpose(tf_expand_dims_first(index))
        tiled_element == tf_reshape(tf_tile(element, <<arr_shape[1]>>), arr_shape)
    IN  tf_add(arr, tf_multiply(tiled_element, pos_mask))

assign_index_vectored(arr, index, element) ==
    LET arr_shape     == tf_shape(arr)
        pos_mask      == tf_transpose(tf_expand_dims_first(index))
        neg_mask      == tf_subtract(Scalar(1), pos_mask)
        tiled_element == tf_reshape(tf_tile(element, <<arr_shape[1]>>), arr_shape)
    IN  tf_add(tf_multiply(arr, neg_mask), tf_multiply(tiled_element, pos_mask))

----------------------------------------------------------------------------
\* The stack: a pair <<buffer, index>>

new_stack(stack_shape) ==
    <<tf_zeros(stack_shape), tf_one_hot(0, stack_shape[1])>>

\* A push that does not advance the position
stack_push_no_roll(stack, element) ==
    <<assign_index_vectored(stack[1], stack[2], element), stack[2]>>

stack_push(stack, element) ==
    LET buffer == assign_index_vectored(stack[1], stack[2], element)
        index  == tf_roll(stack[2], 1)
    IN  <<buffer, index>>

\* A pop that reads at the position before moving it back
stack_pop_read_first(stack) ==
    <<<<stack[1], tf_roll(stack[2], -1)>>,
      superposition_lookup_vectored(stack[1], stack[2])>>

\* A pop that zeroes the slot it has read
stack_pop_clearing(stack) ==
    LET index   == tf_roll(stack[2], -1)
        element == superposition_lookup_vectored(stack[1], index)
    IN  <<<<tf_multiply(stack[1], tf_subtract(Scalar(1), tf_expand_dims_last(index))),
            index>>, element>>

stack_pop(stack) ==
    LET index   == tf_roll(stack[2], -1)
        element == superposition_lookup_vectored(stack[1], index)
    IN  <<<<stack[1], index>>, element>>

\* A peek that reads at the position itself
stack_peek_no_roll(stack) == superposition_lookup_vectored(stack[1], stack[2])

stack_peek(stack) ==
    LET index == tf_roll(stack[2], -1)
    IN  superposition_lookup_vectored(stack[1], index)

----------------------------------------------------------------------------
\* reverse_list: the two-stack reversal, one step per statement or loop turn

reverse_list_enter(r) ==
    [r EXCEPT !.pc = "push", !.i = 0,
              !.stack1 = new_stack(tf_shape(r.arr))]

reverse_list_push(r) ==
    [r EXCEPT !.i = r.i + 1,
              !.stack1 = stack_push(r.stack1, tf_unstack(r.arr)[r.i + 1])]

reverse_list_stack2(r) ==
    [r EXCEPT !.pc = "transfer", !.i = 0,
              !.stack2 = new_stack(tf_shape(r.arr))]

\* A transfer that reads the top of stack 1 without popping it
reverse_list_transfer_no_pop(r) ==
    [r EXCEPT !.i = r.i + 1,
              !.stack2 = stack_push(r.stack2, stack_peek(r.stack1))]

reverse_list_transfer(r) ==
    LET p == stack_pop(r.stack1)
    IN  [r EXCEPT !.i = r.i + 1,
                  !.stack1 = p[1],
                  !.stack2 = stack_push(r.stack2, p[2])]

reverse_list_return(r) ==
    [r EXCEPT !.pc = "done", !.out = r.stack2[1]]

----------------------------------------------------------------------------
\* Inputs

\* The row <<v, v+1, ..., v+Width-1>>
RampRow(v) == Tensor(<<Width>>, [c \in 1..Width |-> v + c - 1])

Elements == {RampRow(v) : v \in 0..MaxVal}

None == Tensor(<<0>>, <<>>)

\* The array of shape <<n, Width>> whose row i is RampRow(f[i])
RowsOf(f, n) ==
    Tensor(<<n, Width>>,
           [k \in 1..(n * Width) |-> f[((k - 1) \div Width) + 1] + ((k - 1) % Width)])

\* The array of shape <<Bandwidth, d1, Width>> whose entry (i, j, c) is
\* f[i] + Width * j + c: the entries of one slice along axis 0 all differ
PlanesOf(f, d1) ==
    Tensor(<<Bandwidth, d1, Width>>,
           [k \in 1..(Bandwidth * d1 * Width) |->
               f[((k - 1) \div (d1 * Width)) + 1] + ((k - 1) % (d1 * Width))])

Arrays1 == {Tensor(<<Bandwidth>>, d) : d \in [1..Bandwidth -> 0..MaxVal]}

Arrays2 == {RowsOf(f, Bandwidth) : f \in [1..Bandwidth -> 0..MaxVal]}

Arrays3 == {PlanesOf(f, d1) : f \in [1..Bandwidth -> 0..MaxVal],
                              d1 \in {1, Bandwidth, Bandwidth + 1}}

WeightVectors == {Tensor(<<Bandwidth>>, d) : d \in [1..Bandwidth -> 0..MaxWeight]}

\* Buffers whose rows are consecutive elements, starting from element k
RampBuffers ==
    {RowsOf([i \in 1..Bandwidth |-> (k + i - 1) % (MaxVal + 1)], Bandwidth) : k \in 0..MaxVal}

Lists == UNION {{RowsOf(f, n) : f \in [1..n -> 0..MaxVal]} : n \in 0..MaxLen}

----------------------------------------------------------------------------
\* State

VARIABLES
    stack0,     \* the stack the caller started from
    stack,      \* the stack the caller holds now
    log,        \* the push and pop calls made so far, with the element pushed or popped
    peeked,     \* the element returned when the latest call was a peek, else None
    limit,      \* number of push and pop calls the caller makes
    lk,         \* a call of superposition_lookup_vectored: arguments and result
    rev,        \* a run of reverse_list: arguments, locals, position and result
    fc          \* a call of one of the array operators: its name, arguments and result

vars == <<stack0, stack, log, peeked, limit, lk, rev, fc>>

IdleStack ==
    /\ stack0 = new_stack(<<Bandwidth, Width>>)
    /\ stack = stack0
    /\ log = <<>>
    /\ peeked = None
    /\ limit = 0

IdleLookup == lk = [arr |-> None, indices |-> None, result |-> None, called |-> FALSE]

IdleReverse ==
    rev = [pc |-> "idle", input |-> None, arr |-> None, stack1 |-> <<None, None>>,
           stack2 |-> <<None, None>>, i |-> 0, out |-> None, round |-> 0]

IdleCall == fc = [fn |-> "none", called |-> FALSE]

----------------------------------------------------------------------------
\* The stack under an arbitrary sequence of calls

Init ==
    /\ stack0 = new_stack(<<Bandwidth, Width>>)
    /\ stack = stack0
    /\ log = <<>>
    /\ peeked = None
    /\ limit = MaxOps
    /\ IdleLookup
    /\ IdleReverse
    /\ IdleCall

\* The caller starts from any buffer and any weight vector as position
InitAny ==
    /\ stack0 \in {<<b, w>> : b \in RampBuffers, w \in WeightVectors}
    /\ stack = stack0
    /\ log = <<>>
    /\ peeked = None
    /\ limit = 2
    /\ IdleLookup
    /\ IdleReverse
    /\ IdleCall

Push(e) ==
    /\ Len(log) < limit
    /\ stack' = stack_push(stack, e)
    /\ log' = Append(log, [op |-> "push", element |-> e])
    /\ peeked' = None
    /\ UNCHANGED <<stack0, limit, lk, rev, fc>>

Pop ==
    /\ Len(log) < limit
    /\ LET r == stack_pop(stack)
       IN  /\ stack' = r[1]
           /\ log' = Append(log, [op |-> "pop", element |-> r[2]])
    /\ peeked' = None
    /\ UNCHANGED <<stack0, limit, lk, rev, fc>>

Peek ==
    /\ limit > 0
    /\ peeked' = stack_peek(stack)
    /\ UNCHANGED <<stack0, stack, log, limit, lk, rev, fc>>

Next ==
    \/ \E e \in Elements : Push(e)
    \/ Pop
    \/ Peek

Spec == Init /\ [][Next]_vars

SpecAny == InitAny /\ [][Next]_vars

----------------------------------------------------------------------------
\* One call of superposition_lookup_vectored on any array and weight vector

InitLookup ==
    /\ IdleStack
    /\ IdleReverse
    /\ IdleCall
    /\ lk \in {[arr |-> a, indices |-> w, result |-> None, called |-> FALSE] :
                  a \in Arrays1 \cup Arrays2 \cup Arrays3, w \in WeightVectors}

Lookup ==
    /\ ~lk.called
    /\ lk' = [lk EXCEPT !.called = TRUE,
                        !.result = superposition_lookup_vectored(lk.arr, lk.indices)]
    /\ UNCHANGED <<stack0, stack, log, peeked, limit, rev, fc>>

NextLookup == Lookup

SpecLookup == InitLookup /\ [][NextLookup]_vars

----------------------------------------------------------------------------
\* reverse_list applied to a list, and then to its own result

InitReverse ==
    /\ IdleStack
    /\ IdleLookup
    /\ IdleCall
    /\ rev \in {[pc |-> "call", input |-> x, arr |-> x, stack1 |-> <<None, None>>,
                 stack2 |-> <<None, None>>, i |-> 0, out |-> None, round |-> 1] :
                   x \in Lists}

RevEnter ==
    /\ rev.pc = "call"
    /\ rev' = reverse_list_enter(rev)
    /\ UNCHANGED <<stack0, stack, log, peeked, limit, lk, fc>>

RevPush ==
    /\ rev.pc = "push"
    /\ rev.i < Len(tf_unstack(rev.arr))
    /\ rev' = reverse_list_push(rev)
    /\ UNCHANGED <<stack0, stack, log, peeked, limit, lk, fc>>

RevStack2 ==
    /\ rev.pc = "push"
    /\ rev.i = Len(tf_unstack(rev.arr))
    /\ rev' = reverse_list_stack2(rev)
    /\ UNCHANGED <<stack0, stack, log, peeked, limit, lk, fc>>

RevTransfer ==
    /\ rev.pc = "transfer"
    /\ rev.i < tf_shape(rev.arr)[1]
    /\ rev' = reverse_list_transfer(rev)
    /\ UNCHANGED <<stack0, stack, log, peeked, limit, lk, fc>>

RevReturn ==
    /\ rev.pc = "transfer"
    /\ rev.i = tf_shape(rev.arr)[1]
    /\ rev' = reverse_list_return(rev)
    /\ UNCHANGED <<stack0, stack, log, peeked, limit, lk, fc>>

\* The caller applies reverse_list to the result of the first application
RevAgain ==
    /\ rev.pc = "done"
    /\ rev.round = 1
    /\ rev' = [rev EXCEPT !.pc = "call", !.arr = rev.out, !.round = 2]
    /\ UNCHANGED <<stack0, stack, log, peeked, limit, lk, fc>>

NextReverse ==
    \/ RevEnter
    \/ RevPush
    \/ RevStack2
    \/ RevTransfer
    \/ RevReturn
    \/ RevAgain

SpecReverse == InitReverse /\ [][NextReverse]_vars

----------------------------------------------------------------------------
\* Continuous positions.  A real number x is held as the integer x * Resolution
\* (positions are multiples of 1/Resolution); One is the real number 1.

One == Resolution

tf_floor(x) == (x \div Resolution) * Resolution

tf_ceil(x) == -(((-x) \div Resolution) * Resolution)

\* tf.cast(x, tf.int32) of an integral real
tf_cast_int32(x) == x \div Resolution

\* tf.math.divide_no_nan: 0 when the denominator is 0
divide_no_nan(a, b) == IF b = 0 THEN 0 ELSE (a * Resolution) \div b

\* arr[i] for an integer tensor i: a negative i counts from the end
tf_getitem(arr, i) ==
    LET n == arr.shape[1]
    IN  IF i \in 0..(n - 1) THEN Row(arr, i)
        ELSE IF i \in (-n)..(-1) THEN Row(arr, n + i)
        ELSE ShapeError

\* An interpolation factor whose second index is the next one, not the ceiling
interp_factor_next(index) ==
    LET t1 == tf_floor(index)
        t2 == tf_ceil(index)
        t  == divide_no_nan(index - t1, t2 - t1)
    IN  <<t, tf_cast_int32(t1), tf_cast_int32(t1) + 1>>

interp_factor(index) ==
    LET t1 == tf_floor(index)
        t2 == tf_ceil(index)
        t  == divide_no_nan(index - t1, t2 - t1)
        i1 == tf_cast_int32(t1)
        i2 == tf_cast_int32(t2)
    IN  <<t, i1, i2>>

\* The result is a real tensor (entries in units of 1/Resolution)
linear_lookup(arr, index) ==
    LET f  == interp_factor(index)
        t  == f[1]
        i1 == f[2]
        i2 == f[3]
    IN  tf_add(tf_multiply(Scalar(t), tf_getitem(arr, i1)),
               tf_multiply(tf_subtract(Scalar(One), Scalar(t)), tf_getitem(arr, i2)))

\* Positions p with 0 <= p <= Bandwidth - 1
PositionsInRange == 0..((Bandwidth - 1) * Resolution)

\* Positions from two below the range to two above it
Positions == (-2 * Resolution)..((Bandwidth + 1) * Resolution)

others == <<stack0, stack, log, peeked, limit, lk, rev>>

IdleOthers == IdleStack /\ IdleLookup /\ IdleReverse

----------------------------------------------------------------------------
\* One call of linear_lookup

InitLinear ==
    /\ IdleOthers
    /\ fc \in {[fn |-> "linear_lookup", arr |-> a, index |-> p, result |-> None,
                called |-> FALSE] : a \in Arrays1 \cup Arrays2, p \in PositionsInRange}

LinearLookup ==
    /\ fc.fn = "linear_lookup"
    /\ ~fc.called
    /\ fc' = [fc EXCEPT !.called = TRUE, !.result = linear_lookup(fc.arr, fc.index)]
    /\ UNCHANGED others

NextLinear == LinearLookup

SpecLinear == InitLinear /\ [][NextLinear]_vars

----------------------------------------------------------------------------
\* The soft index encoder and the lookup at a continuous position

tf_clip_low_only(x, lo, hi) == IF x < lo THEN lo ELSE x

tf_clip_by_value(x, lo, hi) == IF x < lo THEN lo ELSE IF x > hi THEN hi ELSE x

tf_eye(n) == Tensor(<<n, n>>, [k \in 1..(n * n) |-> IF (k - 1) \div n = (k - 1) % n THEN 1 ELSE 0])

\* tf.cast(tf.range(n), tf.float32)
tf_range(n) == Tensor(<<n>>, [k \in 1..n |-> k - 1])

\* The encoder with the second one-hot vector left unweighted
bandwidthify_unweighted(index, bandwidth) ==
    LET f   == interp_factor(index)
        i1  == tf_clip_by_value(f[2], 0, bandwidth - 1)
        i2  == tf_clip_by_value(f[3], 0, bandwidth - 1)
        t   == tf_clip_by_value(f[1], 0, One)
        eye == tf_eye(bandwidth)
    IN  tf_add(tf_multiply(Scalar(t), tf_getitem(eye, i1)),
               tf_multiply(Scalar(One), tf_getitem(eye, i2)))

\* The result is a real vector (entries in units of 1/Resolution)
bandwidthify(index, bandwidth) ==
    LET f   == interp_factor(index)
        i1  == tf_clip_by_value(f[2], 0, bandwidth - 1)
        i2  == tf_clip_by_value(f[3], 0, bandwidth - 1)
        t   == tf_clip_by_value(f[1], 0, One)
        eye == tf_eye(bandwidth)
    IN  tf_add(tf_multiply(Scalar(t), tf_getitem(eye, i1)),
               tf_multiply(tf_subtract(Scalar(One), Scalar(t)), tf_getitem(eye, i2)))

superposition_lookup(arr, index) ==
    LET bandwidth      == tf_shape(arr)[1]
        vectored_index == bandwidthify(index, bandwidth)
    IN  superposition_lookup_vectored(arr, vectored_index)

BandwidthValues == 1..(Bandwidth + 1)

InitBandwidthify ==
    /\ IdleOthers
    /\ fc \in {[fn |-> "bandwidthify", index |-> p, bandwidth |-> n, z |-> None,
                nz |-> None, called |-> FALSE] : p \in Positions, n \in BandwidthValues}
              \cup
              {[fn |-> "superposition_lookup", arr |-> a, index |-> p, result |-> None,
                called |-> FALSE] : a \in Arrays1 \cup Arrays2, p \in Positions}

\* z = bandwidthify(index, bandwidth), then the ramp read with z
Bandwidthify ==
    /\ fc.fn = "bandwidthify"
    /\ ~fc.called
    /\ LET dummy_array == tf_range(fc.bandwidth)
           z           == bandwidthify(fc.index, fc.bandwidth)
           nz          == superposition_lookup_vectored(dummy_array, z)
       IN  fc' = [fc EXCEPT !.called = TRUE, !.z = z, !.nz = nz]
    /\ UNCHANGED others

SuperpositionLookup ==
    /\ fc.fn = "superposition_lookup"
    /\ ~fc.called
    /\ fc' = [fc EXCEPT !.called = TRUE, !.result = superposition_lookup(fc.arr, fc.index)]
    /\ UNCHANGED others

NextBandwidthify ==
    \/ Bandwidthify
    \/ SuperpositionLookup

SpecBandwidthify == InitBandwidthify /\ [][NextBandwidthify]_vars

----------------------------------------------------------------------------
\* The soft write at an integer index and at a weight vector

assign_index(arr, index, element) ==
    LET arr_shape     == tf_shape(arr)
        pos_mask0     == tf_getitem(tf_eye(arr_shape[1]), index)
        pos_mask      == tf_transpose(tf_expand_dims_first(pos_mask0))
        neg_mask      == tf_subtract(Scalar(1), pos_mask)
        tiled_element == tf_reshape(tf_tile(element, <<arr_shape[1]>>), arr_shape)
    IN  tf_add(tf_multiply(arr, neg_mask), tf_multiply(tiled_element, pos_mask))

\* Arrays of Bandwidth + 1 rows whose rows are consecutive elements
TallBuffers ==
    {RowsOf([i \in 1..(Bandwidth + 1) |-> (k + i - 1) % (MaxVal + 1)], Bandwidth + 1) :
        k \in 0..MaxVal}

WeightsOf(n) == {Tensor(<<n>>, d) : d \in [1..n -> 0..MaxWeight]}

AssignArrays == Arrays2 \cup TallBuffers

InitAssign ==
    /\ IdleOthers
    /\ \E a \in AssignArrays, e \in Elements :
          \/ \E w \in WeightsOf(a.shape[1]) :
                fc = [fn |-> "assign_index_vectored", arr |-> a, index |-> w,
                      element |-> e, new_arr |-> None, called |-> FALSE]
          \/ \E i \in 0..(a.shape[1] - 1) :
                fc = [fn |-> "assign_index", arr |-> a, index |-> i,
                      element |-> e, new_arr |-> None, called |-> FALSE]

AssignIndex ==
    /\ fc.fn = "assign_index"
    /\ ~fc.called
    /\ fc' = [fc EXCEPT !.called = TRUE,
                        !.new_arr = assign_index(fc.arr, fc.index, fc.element)]
    /\ UNCHANGED others

AssignIndexVectored ==
    /\ fc.fn = "assign_index_vectored"
    /\ ~fc.called
    /\ fc' = [fc EXCEPT !.called = TRUE,
                        !.new_arr = assign_index_vectored(fc.arr, fc.index, fc.element)]
    /\ UNCHANGED others

NextAssign ==
    \/ AssignIndex
    \/ AssignIndexVectored

SpecAssign == InitAssign /\ [][NextAssign]_vars

----------------------------------------------------------------------------
\* Shape matching and the operators on two indexed axes

IsPrefix(s, t) == Len(s) <= Len(t) /\ SubSeq(t, 1, Len(s)) = s

\* tf.ones(n, dtype=tf.int32) as a shape
tf_ones_int(n) == [i \in 1..n |-> 1]

\* A failed tf.debugging.assert_equal: the call returns nothing
Failed == <<ShapeError, ShapeError>>

\* Shape matching that checks only the ranks
match_shapes_unchecked(x, y) ==
    LET swap   == tf_rank(x) > tf_rank(y)
        low    == IF swap THEN y ELSE x
        high   == IF swap THEN x ELSE y
        l_rank == tf_rank(low)
        h_rank == tf_rank(high)
        common_shape == SubSeq(tf_shape(high), 1, l_rank)
        new_shape    == common_shape \o tf_ones_int(h_rank - l_rank)
    IN  <<high, tf_reshape(low, new_shape)>>

match_shapes(x, y) ==
    LET swap    == tf_rank(x) > tf_rank(y)
        low     == IF swap THEN y ELSE x
        high    == IF swap THEN x ELSE y
        l_rank  == tf_rank(low)
        l_shape == tf_shape(low)
        h_rank  == tf_rank(high)
        h_shape == tf_shape(high)
        common_shape == SubSeq(h_shape, 1, l_rank)
        padding      == tf_ones_int(h_rank - l_rank)
        new_shape    == common_shape \o padding
    IN  IF IsError(x) \/ IsError(y) \/ common_shape # l_shape THEN Failed
        ELSE <<high, tf_reshape(low, new_shape)>>

broadcast_multiply(x, y) ==
    LET m == match_shapes(x, y)
    IN  tf_multiply(m[1], m[2])

\* tf.tensordot(x, y, axes=0) of two vectors: the outer product
tf_tensordot(x, y) ==
    LET m == x.shape[1]
        n == y.shape[1]
    IN  Tensor(<<m, n>>, [k \in 1..(m * n) |-> x.data[((k - 1) \div n) + 1] * y.data[((k - 1) % n) + 1]])

MaxOf(S) == CHOOSE m \in S : \A e \in S : e <= m

\* tf.math.reduce_max(t, axis=[0, 1])
tf_reduce_max(t) ==
    IF IsError(t) \/ Len(t.shape) < 2 THEN ShapeError
    ELSE LET s == SubSeq(t.shape, 3, Len(t.shape))
         IN  Tensor(s, [k \in 1..Prod(s) |->
                           MaxOf({At(t, <<i, j>> \o Unravel(k - 1, s)) :
                                     i \in 0..(t.shape[1] - 1), j \in 0..(t.shape[2] - 1)})])

tensor_lookup_2d(arr, x_index, y_index) ==
    LET mask       == tf_tensordot(x_index, y_index)
        masked_arr == broadcast_multiply(mask, arr)
    IN  tf_reduce_max(masked_arr)

\* tf.reshape(element, [1, 1, -1])
tf_reshape_11(element) ==
    IF IsError(element) THEN ShapeError
    ELSE Tensor(<<1, 1, Prod(element.shape)>>, element.data)

\* The write without the negative mask
tensor_write_2d_additive(arr, element, x_index, y_index) ==
    LET arr_shape == tf_shape(arr)
        mask      == match_shapes(arr, tf_tensordot(x_index, y_index))[2]
        element1  == tf_tile(tf_reshape_11(element), <<arr_shape[1], arr_shape[2], 1>>)
    IN  tf_add(arr, tf_multiply(mask, element1))

tensor_write_2d(arr, element, x_index, y_index) ==
    LET arr_shape == tf_shape(arr)
        mask0     == tf_tensordot(x_index, y_index)
        mask      == match_shapes(arr, mask0)[2]
        element0  == tf_reshape_11(element)
        element1  == tf_tile(element0, <<arr_shape[1], arr_shape[2], 1>>)
    IN  tf_add(tf_multiply(tf_subtract(Scalar(1), mask), arr), tf_multiply(mask, element1))

\* The array of shape <<Bandwidth, Bandwidth + 1, Width>> whose entry
\* (i, j, c) is a[i] * (j + 1) + c
Grid(a) ==
    LET s == <<Bandwidth, Bandwidth + 1, Width>>
    IN  Tensor(s, [k \in 1..Prod(s) |->
                      LET idx == Unravel(k - 1, s)
                      IN  a[idx[1] + 1] * (idx[2] + 1) + idx[3]])

\* Grids with stored values of both signs
Grids == {Grid(a) : a \in [1..Bandwidth -> (-MaxVal)..MaxVal]}

\* Grids whose planes are consecutive
RampGrids == {Grid([i \in 1..Bandwidth |-> k + i]) : k \in {-MaxVal, -1, 0}}

OneHots(n) == {tf_one_hot(i, n) : i \in 0..(n - 1)}

\* One-hot vectors and the vector that is MaxWeight everywhere
ColumnWeights(n) == OneHots(n) \cup {Tensor(<<n>>, [k \in 1..n |-> MaxWeight])}

InitTensor2d ==
    /\ IdleOthers
    /\ \/ \E a \in Grids, x \in OneHots(Bandwidth), y \in OneHots(Bandwidth + 1) :
             fc = [fn |-> "tensor_lookup_2d", arr |-> a, x_index |-> x, y_index |-> y,
                   element |-> None, called |-> FALSE]
       \/ \E a \in RampGrids, e \in Elements, x \in WeightVectors,
             y \in ColumnWeights(Bandwidth + 1) :
             fc = [fn |-> "tensor_write_2d", arr |-> a, x_index |-> x, y_index |-> y,
                   element |-> e, new_arr |-> None, called |-> FALSE]

TensorLookup2d ==
    /\ fc.fn = "tensor_lookup_2d"
    /\ ~fc.called
    /\ fc' = [fc EXCEPT !.called = TRUE,
                        !.element = tensor_lookup_2d(fc.arr, fc.x_index, fc.y_index)]
    /\ UNCHANGED others

TensorWrite2d ==
    /\ fc.fn = "tensor_write_2d"
    /\ ~fc.called
    /\ fc' = [fc EXCEPT !.called = TRUE,
                        !.new_arr = tensor_write_2d(fc.arr, fc.element, fc.x_index, fc.y_index)]
    /\ UNCHANGED others

NextTensor2d ==
    \/ TensorLookup2d
    \/ TensorWrite2d

SpecTensor2d == InitTensor2d /\ [][NextTensor2d]_vars

----------------------------------------------------------------------------
\* One call of match_shapes

MaxRank == 3

Shapes == UNION {[1..r -> 1..Bandwidth] : r \in 0..MaxRank}

\* The tensor of the given shape with the entries sign, 2 * sign, ...
Filled(s, sign) == Tensor(s, [k \in 1..Prod(s) |-> sign * k])

InitShapes ==
    /\ IdleOthers
    /\ \E s \in Shapes, t \in Shapes :
          fc = [fn |-> "match_shapes", x |-> Filled(s, 1), y |-> Filled(t, -1),
                result |-> <<None, None>>, called |-> FALSE]

MatchShapes ==
    /\ fc.fn = "match_shapes"
    /\ ~fc.called
    /\ fc' = [fc EXCEPT !.called = TRUE, !.result = match_shapes(fc.x, fc.y)]
    /\ UNCHANGED others

NextShapes == MatchShapes

SpecShapes == InitShapes /\ [][NextShapes]_vars

----------------------------------------------------------------------------
\* The lookup with a hard forward pass and a hand-written backward pass

\* The entries of row r (from 1) of a 2-D tensor
RowData(t, r) == Row(t, r - 1).data

\* The columns (from 0) where a row is least; tf.argmin returns one of them
ArgMin(row) == {c \in 0..(Len(row) - 1) : \A j \in 1..Len(row) : row[c + 1] <= row[j]}

\* The first column, whatever the row holds
ArgFirst(row) == {0}

\* The columns (from 0) where a row is greatest; tf.argmax returns one of
\* them (which one is not guaranteed when several tie)
ArgMax(row) == {c \in 0..(Len(row) - 1) : \A j \in 1..Len(row) : row[j] <= row[c + 1]}

\* The possible values of tf.argmax(k, axis=-1)
tf_argmax(k) == {f \in [1..k.shape[1] -> 0..(k.shape[2] - 1)] :
                    \A r \in 1..k.shape[1] : f[r] \in ArgMax(RowData(k, r))}

\* The possible values of tf.argmin(t, axis=-1)
tf_argmin(t) == {f \in [1..t.shape[1] -> 0..(t.shape[2] - 1)] :
                    \A r \in 1..t.shape[1] : f[r] \in ArgMin(RowData(t, r))}

\* tf.gather_nd(v, tf.stack([tf.range(n), b_idx], axis=1))
tf_gather_nd(v, b_idx) ==
    Tensor(<<Len(b_idx)>>, [r \in 1..Len(b_idx) |-> At(v, <<r - 1, b_idx[r]>>)])

tf_abs(t) == Tensor(t.shape, [k \in 1..Len(t.data) |-> IF t.data[k] < 0 THEN -t.data[k] ELSE t.data[k]])

tf_ones(shape) == Tensor(shape, [k \in 1..Prod(shape) |-> 1])

\* tf.one_hot([d_idx], depth)[0]
tf_one_hot_rows(d_idx, depth) ==
    Tensor(<<Len(d_idx), depth>>,
           [k \in 1..(Len(d_idx) * depth) |->
               IF d_idx[((k - 1) \div depth) + 1] = (k - 1) % depth THEN 1 ELSE 0])

\* tf.math.squared_difference(v, target) with target expanded on the last axis
diff_vector(v, forward_result, upstream_grads) ==
    LET target == tf_expand_dims_last(tf_subtract(forward_result, upstream_grads))
        diff   == tf_subtract(v, target)
    IN  tf_multiply(diff, diff)

\* The backward pass scaling the k-gradient by the signed upstream gradient
grad_signed(k, d_idx, upstream_grads) ==
    LET k_shape == tf_shape(k)
        ones    == tf_ones(k_shape)
        eyes    == tf_one_hot_rows(d_idx, k_shape[2])
        k_grad  == tf_subtract(Scalar(0), tf_subtract(tf_multiply(Scalar(2), eyes), ones))
        ug      == tf_expand_dims_last(upstream_grads)
    IN  <<tf_multiply(ug, k), tf_multiply(ug, k_grad)>>

\* The backward pass of a lookup whose k-gradient is zero, as the gradient of
\* argmax is without the custom rule
grad_without_rule(k, d_idx, upstream_grads) ==
    <<tf_multiply(tf_expand_dims_last(upstream_grads), k), tf_zeros(tf_shape(k))>>

\* grad(upstream_grads) once d_idx is known: the pair (v-gradient, k-gradient)
grad(k, d_idx, upstream_grads) ==
    LET k_shape == tf_shape(k)
        ones    == tf_ones(k_shape)
        eyes    == tf_one_hot_rows(d_idx, k_shape[2])
        k_grad  == tf_subtract(Scalar(0), tf_subtract(tf_multiply(Scalar(2), eyes), ones))
        v_grad  == k
        ug      == tf_expand_dims_last(upstream_grads)
    IN  <<tf_multiply(ug, v_grad), tf_multiply(tf_abs(ug), k_grad)>>

\* Value arrays: consecutive rows, and the array of equal entries
AsymValues == RampBuffers \cup {tf_zeros(<<Bandwidth, Width>>)}

\* Rows of k: one-hot, and the row that is MaxWeight everywhere
KRows == {tf_one_hot(i, Width).data : i \in 0..(Width - 1)}
         \cup {[c \in 1..Width |-> MaxWeight]}

AsymWeights ==
    {Tensor(<<Bandwidth, Width>>,
            [i \in 1..(Bandwidth * Width) |-> f[((i - 1) \div Width) + 1][((i - 1) % Width) + 1]]) :
        f \in [1..Bandwidth -> KRows]}

\* Upstream gradients: each row negative, positive or zero, in turn
Upstreams ==
    LET values == <<-MaxVal, 1, 0>>
    IN  {Tensor(<<Bandwidth>>, [r \in 1..Bandwidth |-> values[((o + r - 1) % 3) + 1]]) : o \in 0..2}

InitAsym ==
    /\ IdleOthers
    /\ \E v \in AsymValues, k \in AsymWeights :
          fc = [fn |-> "asymmetrical_vectored_lookup", v |-> v, k |-> k,
                forward_result |-> None, called |-> FALSE,
                upstream_grads |-> None, v_grad |-> None, k_grad |-> None,
                backward |-> FALSE]

\* The forward pass
AsymForward ==
    /\ fc.fn = "asymmetrical_vectored_lookup"
    /\ ~fc.called
    /\ \E b_idx \in tf_argmax(fc.k) :
          fc' = [fc EXCEPT !.called = TRUE, !.forward_result = tf_gather_nd(fc.v, b_idx)]
    /\ UNCHANGED others

\* The backward pass on an upstream gradient
AsymBackward ==
    /\ fc.fn = "asymmetrical_vectored_lookup"
    /\ fc.called
    /\ ~fc.backward
    /\ \E g \in Upstreams :
          \E dv \in {diff_vector(fc.v, fc.forward_result, g)} :
             \E d_idx \in tf_argmin(dv) :
                \E gs \in {grad(fc.k, d_idx, g)} :
                   fc' = [fc EXCEPT !.backward = TRUE, !.upstream_grads = g,
                                    !.v_grad = gs[1], !.k_grad = gs[2]]
    /\ UNCHANGED others

NextAsym ==
    \/ AsymForward
    \/ AsymBackward

SpecAsym == InitAsym /\ [][NextAsym]_vars

----------------------------------------------------------------------------
\* Gradients of the weighted-sum lookup, as tape.gradient returns them: the
\* derivative of the sum of the target's entries with respect to each entry
\* of the source.  The lookup is affine in each entry, so the derivative is
\* the difference made by adding 1 to that entry.

\* The tensor of the given shape that is 1 at flat position k and 0 elsewhere
UnitAt(shape, k) == Tensor(shape, [j \in 1..Prod(shape) |-> IF j = k THEN 1 ELSE 0])

\* The sum of all the entries of a tensor
TotalOf(t) == SumTo(t.data, Len(t.data))

\* tape.gradient(z, arr) for z = superposition_lookup_vectored(arr, indices)
tape_gradient_arr(arr, indices) ==
    Tensor(arr.shape,
           [k \in 1..Prod(arr.shape) |->
               TotalOf(superposition_lookup_vectored(tf_add(arr, UnitAt(arr.shape, k)), indices))
               - TotalOf(superposition_lookup_vectored(arr, indices))])

\* tape.gradient(z, indices) for z = superposition_lookup_vectored(arr, indices)
tape_gradient_indices(arr, indices) ==
    Tensor(indices.shape,
           [k \in 1..Prod(indices.shape) |->
               TotalOf(superposition_lookup_vectored(arr, tf_add(indices, UnitAt(indices.shape, k))))
               - TotalOf(superposition_lookup_vectored(arr, indices))])

InitGradient ==
    /\ IdleOthers
    /\ \E a \in Arrays1 \cup Arrays2, w \in WeightVectors :
          fc = [fn |-> "superposition_lookup_vectored", arr |-> a, indices |-> w,
                z |-> None, grad_arr |-> None, grad_indices |-> None, called |-> FALSE]

\* The lookup under the tape, then the two gradients
LookupGradients ==
    /\ fc.fn = "superposition_lookup_vectored"
    /\ ~fc.called
    /\ fc' = [fc EXCEPT !.called = TRUE,
                        !.z = superposition_lookup_vectored(fc.arr, fc.indices),
                        !.grad_arr = tape_gradient_arr(fc.arr, fc.indices),
                        !.grad_indices = tape_gradient_indices(fc.arr, fc.indices)]
    /\ UNCHANGED others

NextGradient == LookupGradients

SpecGradient == InitGradient /\ [][NextGradient]_vars

----------------------------------------------------------------------------
\* Lookups at the rounded position

\* Rounding that always goes down
tf_round_down(x) == (x \div Resolution) * Resolution

\* tf.round: to the nearest integer, halves to the even one
tf_round(x) ==
    LET f == tf_floor(x)
        r == x - f
    IN  IF 2 * r < One THEN f
        ELSE IF 2 * r > One THEN f + One
        ELSE IF tf_cast_int32(f) % 2 = 0 THEN f ELSE f + One

naive_lookup(arr, index) ==
    LET index1 == tf_round(index)
        index2 == tf_cast_int32(index1)
    IN  tf_getitem(arr, index2)

\* The pair (result, residue); the residue is a real number
residual_lookup(arr, index) ==
    LET i       == tf_round(index)
        residue == index - i
        i1      == tf_cast_int32(i)
        result  == tf_getitem(arr, i1)
    IN  <<result, residue>>

InitResidual ==
    /\ IdleOthers
    /\ \E a \in Arrays1 \cup Arrays2, p \in Positions :
          fc = [fn |-> "residual_lookup", arr |-> a, index |-> p,
                result |-> None, residue |-> 0, called |-> FALSE,
                z |-> None, naive_called |-> FALSE]

ResidualLookup ==
    /\ fc.fn = "residual_lookup"
    /\ ~fc.called
    /\ \E out \in {residual_lookup(fc.arr, fc.index)} :
          fc' = [fc EXCEPT !.called = TRUE, !.result = out[1], !.residue = out[2]]
    /\ UNCHANGED others

NaiveLookup ==
    /\ fc.fn = "residual_lookup"
    /\ ~fc.naive_called
    /\ fc' = [fc EXCEPT !.naive_called = TRUE, !.z = naive_lookup(fc.arr, fc.index)]
    /\ UNCHANGED others

NextResidual ==
    \/ ResidualLookup
    \/ NaiveLookup

SpecResidual == InitResidual /\ [][NextResidual]_vars

----------------------------------------------------------------------------
\* A stack built over a given buffer

new_stack_from_buffer(buffer) ==
    LET stack_shape == tf_shape(buffer)
        index       == tf_one_hot(0, stack_shape[1])
    IN  <<buffer, index>>

InitFromBuffer ==
    /\ stack0 \in {new_stack_from_buffer(b) : b \in RampBuffers}
    /\ stack = stack0
    /\ log = <<>>
    /\ peeked = None
    /\ limit = Bandwidth + 1
    /\ IdleLookup
    /\ IdleReverse
    /\ IdleCall

SpecFromBuffer == InitFromBuffer /\ [][Next]_vars

----------------------------------------------------------------------------
\* The stack with an integer index, run in step with the stack with a
\* position vector.  The soft stack is in `stack`; the integer-index state
\* and its last popped element are in `fc`.

legacy_stack_push(state, element) ==
    LET buffer == assign_index(state[1], state[2], element)
        index  == state[2] + 1
    IN  <<buffer, index>>

\* A pop that reads before it moves the index
legacy_stack_pop_read_first(state) ==
    <<<<state[1], state[2] - 1>>, tf_getitem(state[1], state[2])>>

\* The pair (state, element)
legacy_stack_pop(state) ==
    LET buffer  == state[1]
        index   == state[2] - 1
        element == tf_getitem(buffer, index)
    IN  <<<<buffer, index>>, element>>

\* Both stacks start over the same buffer: zeros, or consecutive rows
BothBuffers == {tf_zeros(<<Bandwidth, Width>>), RowsOf([i \in 1..Bandwidth |-> i - 1], Bandwidth)}

InitBoth ==
    /\ stack0 \in {new_stack_from_buffer(b) : b \in BothBuffers}
    /\ stack = stack0
    /\ log = <<>>
    /\ peeked = None
    /\ limit = MaxOps
    /\ IdleLookup
    /\ IdleReverse
    /\ fc = [fn |-> "legacy", state |-> <<stack0[1], 0>>, element |-> None, called |-> FALSE]

\* The caller pushes on both stacks when the depth is below the bandwidth
PushBoth(e) ==
    /\ fc.fn = "legacy"
    /\ Len(log) < limit
    /\ fc.state[2] < Bandwidth
    /\ stack' = stack_push(stack, e)
    /\ log' = Append(log, [op |-> "push", element |-> e])
    /\ fc' = [fc EXCEPT !.state = legacy_stack_push(fc.state, e), !.called = TRUE]
    /\ UNCHANGED <<stack0, peeked, limit, lk, rev>>

\* The caller pops both stacks when the depth is above zero
PopBoth ==
    /\ fc.fn = "legacy"
    /\ Len(log) < limit
    /\ fc.state[2] > 0
    /\ \E r \in {stack_pop(stack)} : \E s \in {legacy_stack_pop(fc.state)} :
          /\ stack' = r[1]
          /\ log' = Append(log, [op |-> "pop", element |-> r[2]])
          /\ fc' = [fc EXCEPT !.state = s[1], !.element = s[2], !.called = TRUE]
    /\ UNCHANGED <<stack0, peeked, limit, lk, rev>>

NextBoth ==
    \/ \E e \in Elements : PushBoth(e)
    \/ PopBoth

SpecBoth == InitBoth /\ [][NextBoth]_vars

----------------------------------------------------------------------------
\* reverse_list as one call: the steps above run to completion

reverse_list_step(r) ==
    IF r.pc = "call" THEN reverse_list_enter(r)
    ELSE IF r.pc = "push" /\ r.i < Len(tf_unstack(r.arr)) THEN reverse_list_push(r)
    ELSE IF r.pc = "push" THEN reverse_list_stack2(r)
    ELSE IF r.pc = "transfer" /\ r.i < tf_shape(r.arr)[1] THEN reverse_list_transfer(r)
    ELSE reverse_list_return(r)

RECURSIVE reverse_list_run(_)
reverse_list_run(r) ==
    IF r.pc = "done" THEN r.out
    ELSE CHOOSE out \in {reverse_list_run(next) : next \in {reverse_list_step(r)}} : TRUE

reverse_list(arr) ==
    reverse_list_run([pc |-> "call", input |-> arr, arr |-> arr, stack1 |-> <<None, None>>,
                      stack2 |-> <<None, None>>, i |-> 0, out |-> None, round |-> 1])

----------------------------------------------------------------------------
\* Training the input of reverse_list.  A float32 value x is held as the
\* integer x * Unit, rounded down; squares of such values are in units of
\* 1 / Unit^2.

Unit == 10000

\* The number of training iterations
Iterations == 100

\* The scale of the powers beta_1^t and beta_2^t
PowerUnit == 1000000

RECURSIVE SqrtBetween(_, _, _)
SqrtBetween(n, lo, hi) ==
    IF hi - lo <= 1 THEN lo
    ELSE LET mid == (lo + hi) \div 2
         IN  IF mid * mid <= n THEN SqrtBetween(n, mid, hi) ELSE SqrtBetween(n, lo, mid)

\* The square root, rounded down
tf_sqrt(n) == SqrtBetween(n, 0, 46341)

\* tf.round of a float32 value
tf_round_float(x) ==
    LET f == (x \div Unit) * Unit
        r == x - f
    IN  IF 2 * r < Unit THEN f
        ELSE IF 2 * r > Unit THEN f + Unit
        ELSE IF (f \div Unit) % 2 = 0 THEN f ELSE f + Unit

\* tf.round of a tensor of float32 values
tf_round_tensor(t) == Tensor(t.shape, [k \in 1..Len(t.data) |-> tf_round_float(t.data[k])])

\* tf.nn.l2_loss(d): half the sum of the squares, in units of 1 / Unit
tf_l2_loss(d) == SumTo([k \in 1..Len(d.data) |-> (d.data[k] * d.data[k]) \div Unit], Len(d.data)) \div 2

\* tape.gradient(loss, x) for loss = l2_loss(y - reverse_list(x)): the
\* derivative y_ - y of the loss with respect to y_, carried back through
\* reverse_list, which is linear in x (entry k of the result is the product
\* of y_ - y with the derivative of reverse_list along entry k of x)
tape_gradient_loss(x, y, y_) ==
    Tensor(x.shape,
           [k \in 1..Len(x.data) |->
               TotalOf(tf_multiply(tf_subtract(y_, y), reverse_list(UnitAt(x.shape, k))))])

\* Adam, first moment: m + (g - m) * (1 - beta_1), beta_1 = 0.9
adam_m(m, g) == m + ((g - m) \div 10)

\* Adam, second moment: v + (g^2 - v) * (1 - beta_2), beta_2 = 0.999
adam_v(v, g) == v + ((g * g - v) \div 1000)

\* An update that leaves the variable where it is
adam_update_skipped(m, v, p1, p2) == 0

\* Adam, the amount subtracted from the variable:
\* lr * sqrt(1 - beta_2^t) / (1 - beta_1^t) * m / (sqrt(v) + epsilon), lr = 0.1;
\* epsilon = 1e-7 matters only when v = 0, and then m = 0 too
adam_update(m, v, p1, p2) ==
    LET c1 == PowerUnit - p1
        c2 == PowerUnit - p2
        r2 == tf_sqrt(c2 * 100)
        sv == tf_sqrt(v)
    IN  IF m = 0 THEN 0
        ELSE (((m * r2) \div sv) * (Unit \div 100)) \div (c1 \div 1000)

\* opt.apply_gradients(zip([grads], [x])): the new x and optimizer slots
apply_gradients(s, grads) ==
    LET n  == Len(grads.data)
        m  == [k \in 1..n |-> adam_m(s.m[k], grads.data[k])]
        v  == [k \in 1..n |-> adam_v(s.v[k], grads.data[k])]
        p1 == (s.p1 * 9) \div 10
        p2 == (s.p2 * 999) \div 1000
    IN  [s EXCEPT !.m = m, !.v = v, !.p1 = p1, !.p2 = p2,
                  !.x = Tensor(s.x.shape,
                               [k \in 1..n |-> s.x.data[k] - adam_update(m[k], v[k], p1, p2)])]

\* The array whose rows hold one value each, f[i] in row i, as float32
ConstantRows(f) ==
    Tensor(<<Bandwidth, Width>>,
           [k \in 1..(Bandwidth * Width) |-> Unit * f[((k - 1) \div Width) + 1]])

\* Targets with decreasing rows, ending at 0 or at 1
Targets == {ConstantRows([i \in 1..Bandwidth |-> k + Bandwidth - i]) : k \in {0, 1}}

InitTrain ==
    /\ IdleOthers
    /\ \E y \in Targets :
          fc = [fn |-> "train_step", x |-> ConstantRows([i \in 1..Bandwidth |-> 1]),
                y |-> y, m |-> [k \in 1..(Bandwidth * Width) |-> 0],
                v |-> [k \in 1..(Bandwidth * Width) |-> 0],
                p1 |-> PowerUnit, p2 |-> PowerUnit, i |-> 0, loss |-> 0, called |-> FALSE]

\* One turn of the training loop
TrainStep ==
    /\ fc.fn = "train_step"
    /\ fc.i < Iterations
    /\ \E y_ \in {reverse_list(fc.x)} :
          \E grads \in {tape_gradient_loss(fc.x, fc.y, y_)} :
             \E s \in {apply_gradients(fc, grads)} :
                fc' = [s EXCEPT !.i = fc.i + 1, !.called = TRUE,
                                !.loss = tf_l2_loss(tf_subtract(fc.y, y_))]
    /\ UNCHANGED others

NextTrain == TrainStep

SpecTrain == InitTrain /\ [][NextTrain]_vars

----------------------------------------------------------------------------
\* Training the weights of asymmetrical_vectored_lookup by plain gradient
\* steps on l2_loss(out - target).  Weights and the step size eta are in
\* units of 1 / Resolution; values and targets are whole numbers.

\* Value arrays: the entries of a row differ by step from column to column
TrainValues ==
    {Tensor(<<Bandwidth, Width>>,
            [i \in 1..(Bandwidth * Width) |->
                (((i - 1) \div Width) + step * ((i - 1) % Width)) % (MaxVal + 1)]) :
        step \in {0, 1}}

\* Targets present in v: row r wants the value of column (c + r) % Width
TrainTargets(v) ==
    {Tensor(<<Bandwidth>>, [r \in 1..Bandwidth |-> At(v, <<r - 1, (c + r) % Width>>)]) :
        c \in 0..(Width - 1)}

\* Initial weights: row r is one-hot at column (c + r) % Width, or the first
\* row is uniform and the others are one-hot at column 0
TrainWeights ==
    {Tensor(<<Bandwidth, Width>>,
            [i \in 1..(Bandwidth * Width) |->
                IF (i - 1) % Width = (c + ((i - 1) \div Width)) % Width THEN One ELSE 0]) :
        c \in 0..(Width - 1)}
    \cup {Tensor(<<Bandwidth, Width>>,
                 [i \in 1..(Bandwidth * Width) |->
                     IF i <= Width THEN One * MaxWeight
                     ELSE IF (i - 1) % Width = 0 THEN One ELSE 0])}

\* Step sizes: the two smallest and 1
Etas == {1, 2, One}

\* k - eta * k_gradient
gradient_step(k, eta, k_grad) == tf_subtract(k, tf_multiply(Scalar(eta), k_grad))

InitAsymTrain ==
    /\ IdleOthers
    /\ \E v \in TrainValues, k \in TrainWeights, eta \in Etas :
          \E t \in TrainTargets(v) :
             fc = [fn |-> "asymmetrical_vectored_lookup training", v |-> v, k |-> k,
                   target |-> t, eta |-> eta, out |-> None, k_grad |-> None,
                   called |-> FALSE]

\* One turn of the loop: the forward pass, the loss gradient out - target,
\* the backward pass, and the update of k
AsymTrainStep ==
    /\ fc.fn = "asymmetrical_vectored_lookup training"
    /\ \E b_idx \in tf_argmax(fc.k) :
          \E out \in {tf_gather_nd(fc.v, b_idx)} :
             \E g \in {tf_subtract(out, fc.target)} :
                \E dv \in {diff_vector(fc.v, out, g)} :
                   \E d_idx \in tf_argmin(dv) :
                      \E gs \in {grad(fc.k, d_idx, g)} :
                         fc' = [fc EXCEPT !.called = TRUE, !.out = out, !.k_grad = gs[2],
                                          !.k = gradient_step(fc.k, fc.eta, gs[2])]
    /\ UNCHANGED others

NextAsymTrain == AsymTrainStep

SpecAsymTrain == InitAsymTrain /\ [][NextAsymTrain]_vars /\ WF_vars(AsymTrainStep)

----------------------------------------------------------------------------
\* Vocabulary of the properties

\* v is the one-hot vector of index i (0-based)
OneHotAt(v, i) ==
    /\ v.shape = <<Len(v.data)>>
    /\ \A k \in 1..Len(v.data) : v.data[k] = IF k - 1 = i THEN 1 ELSE 0

IsOneHot(v) == \E i \in 0..(Len(v.data) - 1) : OneHotAt(v, i)

RECURSIVE LeadingPushes(_)
LeadingPushes(l) ==
    IF l = <<>> \/ Head(l).op # "push" THEN 0 ELSE 1 + LeadingPushes(Tail(l))

AllPushes(l) == \A j \in 1..Len(l) : l[j].op = "push"

LastCall(l) == l[Len(l)]

----------------------------------------------------------------------------
\* C1: from new_stack, n <= bandwidth pushes followed by up to n pops return
\* the pushed elements in reverse order of insertion: the j-th pop returns the
\* (n+1-j)-th pushed element.
C1_LIFO ==
    LET n == LeadingPushes(log)
        k == Len(log) - n
    IN  (/\ n <= Bandwidth
         /\ k <= n
         /\ \A j \in (n + 1)..Len(log) : log[j].op = "pop")
        => \A j \in 1..k : log[n + j].element = log[n + 1 - j].element

C1_Witness ==
    /\ Len(log) = 2 * Bandwidth
    /\ LeadingPushes(log) = Bandwidth
    /\ \A j \in (Bandwidth + 1)..Len(log) : log[j].op = "pop"
    /\ \A i, j \in 1..Bandwidth : i # j => log[i].element # log[j].element
    /\ log[Len(log)].element = log[1].element

\* C5: a push never fails; after m pushes from a new stack the position is
\* one-hot at m mod bandwidth (so at 0 again after exactly bandwidth pushes)
\* and push number m has written slot (m-1) mod bandwidth, whatever it held.
C5_PushWraps ==
    (AllPushes(log) /\ Len(log) >= 1)
    => LET m == Len(log)
       IN  /\ ~IsError(stack[1])
           /\ ~IsError(stack[2])
           /\ OneHotAt(stack[2], m % Bandwidth)
           /\ Row(stack[1], (m - 1) % Bandwidth) = log[m].element

C5_Witness ==
    /\ AllPushes(log)
    /\ Len(log) = Bandwidth + 1
    /\ log[1].element # log[Bandwidth + 1].element
    /\ Row(stack[1], 0) = log[Bandwidth + 1].element
    /\ OneHotAt(stack[2], 1 % Bandwidth)

\* C6: in every state reachable from new_stack by pushes, pops and peeks the
\* position vector has length bandwidth and is exactly one-hot; before any
\* push or pop it is one-hot at index 0 and the buffer is all zeros.
C6_PositionOneHot ==
    /\ stack[2].shape = <<Bandwidth>>
    /\ IsOneHot(stack[2])
    /\ log = <<>> => /\ OneHotAt(stack[2], 0)
                     /\ stack[1].shape = <<Bandwidth, Width>>
                     /\ \A k \in 1..Len(stack[1].data) : stack[1].data[k] = 0

C6_Witness ==
    /\ Len(log) >= 3
    /\ \E i, j \in 1..Len(log) : log[i].op = "push" /\ log[j].op = "pop"
    /\ peeked # None
    /\ ~OneHotAt(stack[2], 0)

\* C7: a peek returns the element a pop of the same state would return and
\* leaves the buffer and the position unchanged.
C7_PeekIsPopElement ==
    [][peeked' # None => (stack' = stack /\ peeked' = stack_pop(stack)[2])]_vars

C7_Witness ==
    /\ Len(log) >= 2
    /\ LastCall(log).op = "push"
    /\ peeked = LastCall(log).element
    /\ peeked # log[1].element

\* C8: a pop changes only the position vector: the buffer is the same before
\* and after, and the slot the new position addresses still holds the popped
\* element.
C8_PopKeepsBuffer ==
    [][(Len(log') = Len(log) + 1 /\ LastCall(log').op = "pop")
        => /\ stack'[1] = stack[1]
           /\ \A i \in 0..(Bandwidth - 1) :
                 OneHotAt(stack'[2], i) => Row(stack'[1], i) = LastCall(log').element]_vars

C8_Witness ==
    /\ Len(log) >= 2
    /\ LastCall(log).op = "pop"
    /\ LastCall(log).element \in Elements
    /\ \E i \in 0..(Bandwidth - 1) :
          OneHotAt(stack[2], i) /\ Row(stack[1], i) = LastCall(log).element

----------------------------------------------------------------------------
\* Round trips from an arbitrary stack (SpecAny)

PushThenPop ==
    /\ Len(log) = 2
    /\ log[1].op = "push"
    /\ log[2].op = "pop"

\* C2: from a state whose position vector is one-hot, a push of e followed by
\* a pop returns e exactly, and the position vector is the one before the push.
C2_RoundTrip ==
    (PushThenPop /\ IsOneHot(stack0[2]))
    => /\ log[2].element = log[1].element
       /\ stack[2] = stack0[2]

C2_Witness ==
    /\ PushThenPop
    /\ OneHotAt(stack0[2], 1)
    /\ Row(stack0[1], 1) # log[1].element
    /\ log[2].element = log[1].element
    /\ stack[2] = stack0[2]

\* C3 as stated: after a push followed by a pop the buffer equals the buffer
\* of the original state.
C3_BufferRestored == PushThenPop => stack[1] = stack0[1]

\* C3 amended: after a push of e followed by a pop, row r of the buffer is
\* buffer[r] * (1 - w[r]) + e * w[r], w the original position vector: with w
\* one-hot at i, row i holds e and every other row is the original row.  The
\* pop restores the position vector, not the buffer.
C3_BufferKeepsPush ==
    PushThenPop
    => /\ stack[1].shape = stack0[1].shape
       /\ stack[2] = stack0[2]
       /\ \A r \in 0..(Bandwidth - 1) : \A c \in 0..(Width - 1) :
             At(stack[1], <<r, c>>) =
                 At(stack0[1], <<r, c>>) * (1 - stack0[2].data[r + 1])
                 + log[1].element.data[c + 1] * stack0[2].data[r + 1]

C3_Witness ==
    /\ PushThenPop
    /\ ~IsOneHot(stack0[2])
    /\ \E r \in 1..Bandwidth : stack0[2].data[r] = 2
    /\ stack[1] # stack0[1]
    /\ stack[2] = stack0[2]

----------------------------------------------------------------------------
\* Superposition lookup (SpecLookup)

\* C9: for an array A of rank 1 or 2 and an index i in range,
\* superposition_lookup_vectored(A, onehot(i)) holds exactly the entries of
\* A[i] (for rank 1 as a vector of one entry).
C9_OneHotLookup ==
    \A i \in 0..(Bandwidth - 1) :
        (lk.called /\ tf_rank(lk.arr) \in {1, 2} /\ OneHotAt(lk.indices, i))
        => /\ lk.result.data = Row(lk.arr, i).data
           /\ lk.result.shape = IF tf_rank(lk.arr) = 1 THEN <<1>> ELSE <<Width>>

C9_Witness ==
    /\ lk.called
    /\ tf_rank(lk.arr) = 2
    /\ OneHotAt(lk.indices, 1)
    /\ Row(lk.arr, 0) # Row(lk.arr, 1)
    /\ lk.result = Row(lk.arr, 1)

\* The tensor of shape s (the shape of one slice of arr along axis 0) whose entry
\* at t is the sum over i of indices[i] * arr[i][t]
WeightedSum(arr, indices, s) ==
    Tensor(s, [k \in 1..Prod(s) |->
                  SumTo([i \in 1..arr.shape[1] |->
                            indices.data[i]
                            * arr.data[(i - 1) * Prod(Tail(arr.shape)) + k]],
                        arr.shape[1])])

\* C10: for an array of any rank >= 1 and any weight vector of length
\* bandwidth, superposition_lookup_vectored returns the sum over i of
\* weight[i] * arr[i], of the shape of one element arr[i] (for rank 1 a vector
\* of one entry).
C10_WeightedSumAnyRank ==
    lk.called
    => lk.result = WeightedSum(lk.arr, lk.indices,
                               IF tf_rank(lk.arr) = 1 THEN <<1>> ELSE Tail(lk.arr.shape))

----------------------------------------------------------------------------
\* List reversal (SpecReverse)

----------------------------------------------------------------------------
\* Linear lookup (SpecLinear)

Min2(a, b) == IF a < b THEN a ELSE b

Max2(a, b) == IF a < b THEN b ELSE a

IsIntegral(p) == p % Resolution = 0

\* C11: for a position p with 0 <= p <= bandwidth-1, every entry of
\* linear_lookup(A, p) lies between the entries of A[floor(p)] and A[ceil(p)];
\* when p is integral the result is A[p] exactly (never an error value).
C11_LinearBetween ==
    (fc.fn = "linear_lookup" /\ fc.called)
    => LET lo == Row(fc.arr, fc.index \div Resolution)
           hi == Row(fc.arr, (fc.index + Resolution - 1) \div Resolution)
       IN  /\ ~IsError(fc.result)
           /\ fc.result.shape = lo.shape
           /\ \A k \in 1..Len(lo.data) :
                 /\ fc.result.data[k] >= One * Min2(lo.data[k], hi.data[k])
                 /\ fc.result.data[k] <= One * Max2(lo.data[k], hi.data[k])
           /\ IsIntegral(fc.index)
              => \A k \in 1..Len(lo.data) : fc.result.data[k] = One * lo.data[k]

C11_Witness ==
    /\ fc.fn = "linear_lookup"
    /\ fc.called
    /\ ~IsIntegral(fc.index)
    /\ tf_rank(fc.arr) = 2
    /\ LET lo == Row(fc.arr, fc.index \div Resolution)
           hi == Row(fc.arr, (fc.index \div Resolution) + 1)
       IN  /\ lo.data[1] < hi.data[1]
           /\ fc.result.data[1] > One * lo.data[1]
           /\ fc.result.data[1] < One * hi.data[1]

C11_WitnessIntegral ==
    /\ fc.fn = "linear_lookup"
    /\ fc.called
    /\ fc.index = One
    /\ Row(fc.arr, 0) # Row(fc.arr, 1)
    /\ fc.result.data = [k \in 1..Len(fc.result.data) |-> One * Row(fc.arr, 1).data[k]]

----------------------------------------------------------------------------
\* The soft index encoder (SpecBandwidthify)

\* v is the real vector of the given length that is 1 at i and 0 elsewhere
RealOneHotAt(v, i, n) ==
    /\ v.shape = <<n>>
    /\ \A k \in 1..n : v.data[k] = IF k - 1 = i THEN One ELSE 0

\* C12: for every position p (integral or fractional, inside or outside the
\* range) and every bandwidth n >= 1, every entry of bandwidthify(p, n) lies
\* in [0, 1] and the entries sum to exactly 1.
C12_WeightsSumToOne ==
    (fc.fn = "bandwidthify" /\ fc.called)
    => /\ fc.z.shape = <<fc.bandwidth>>
       /\ \A k \in 1..fc.bandwidth : fc.z.data[k] >= 0 /\ fc.z.data[k] <= One
       /\ SumTo(fc.z.data, fc.bandwidth) = One

C12_Witness ==
    /\ fc.fn = "bandwidthify"
    /\ fc.called
    /\ fc.bandwidth = Bandwidth + 1
    /\ fc.index > 0
    /\ fc.index < One
    /\ fc.z.data[1] > 0
    /\ fc.z.data[2] > 0
    /\ fc.z.data[1] # fc.z.data[2]
    /\ fc.z.data[1] + fc.z.data[2] = One

\* C13: bandwidthify never rejects a position: for p < 0 it returns
\* onehot(0) and for p > bandwidth-1 it returns onehot(bandwidth-1), so
\* superposition_lookup(arr, p) at an out-of-range p returns the boundary row
\* arr[0] or arr[bandwidth-1] instead of failing.
C13_OutOfRangeClamps ==
    /\ (fc.fn = "bandwidthify" /\ fc.called)
       => /\ ~IsError(fc.z)
          /\ fc.index < 0 => RealOneHotAt(fc.z, 0, fc.bandwidth)
          /\ fc.index > (fc.bandwidth - 1) * One
             => RealOneHotAt(fc.z, fc.bandwidth - 1, fc.bandwidth)
    /\ (fc.fn = "superposition_lookup" /\ fc.called)
       => LET n == fc.arr.shape[1]
              first == Row(fc.arr, 0).data
              last  == Row(fc.arr, n - 1).data
          IN  /\ ~IsError(fc.result)
              /\ fc.index < 0
                 => fc.result.data = [k \in 1..Len(first) |-> One * first[k]]
              /\ fc.index > (n - 1) * One
                 => fc.result.data = [k \in 1..Len(last) |-> One * last[k]]

C13_Witness ==
    /\ fc.fn = "superposition_lookup"
    /\ fc.called
    /\ fc.index > (fc.arr.shape[1] - 1) * One
    /\ ~IsIntegral(fc.index)
    /\ tf_rank(fc.arr) = 2
    /\ Row(fc.arr, 0) # Row(fc.arr, fc.arr.shape[1] - 1)
    /\ fc.result = tf_multiply(Scalar(One), Row(fc.arr, fc.arr.shape[1] - 1))

\* C14: for every position p with 0 <= p <= bandwidth-1, reading the ramp
\* array [0, 1, ..., bandwidth-1] with the weight vector
\* bandwidthify(p, bandwidth) returns p (the weighted mean index is p).
C14_RampReadsPosition ==
    (/\ fc.fn = "bandwidthify"
     /\ fc.called
     /\ fc.index >= 0
     /\ fc.index <= (fc.bandwidth - 1) * One)
    => fc.nz.data = <<fc.index>>

\* What the ramp read returns: floor(p) + ceil(p) - p
C14_RampReadsMirror ==
    (/\ fc.fn = "bandwidthify"
     /\ fc.called
     /\ fc.index >= 0
     /\ fc.index <= (fc.bandwidth - 1) * One)
    => fc.nz = Tensor(<<1>>, <<tf_floor(fc.index) + tf_ceil(fc.index) - fc.index>>)

----------------------------------------------------------------------------
\* Soft writes (SpecAssign)

\* The weight vector of the write in progress
WriteWeights ==
    IF fc.fn = "assign_index" THEN tf_one_hot(fc.index, fc.arr.shape[1]) ELSE fc.index

\* C15: for a 2-D array arr, an element e and a weight vector w, the soft
\* write returns the array whose row r is arr[r]*(1-w[r]) + e*w[r], where w is
\* the given vector for assign_index_vectored and onehot(index) for
\* assign_index; when w is one-hot at i, row i of the result is e and every
\* other row is the row of arr.
C15_SoftWriteRows ==
    (fc.fn \in {"assign_index", "assign_index_vectored"} /\ fc.called)
    => LET w == WriteWeights
           n == fc.arr.shape[1]
       IN  /\ fc.new_arr.shape = fc.arr.shape
           /\ \A r \in 0..(n - 1) : \A c \in 0..(Width - 1) :
                 At(fc.new_arr, <<r, c>>)
                 = At(fc.arr, <<r, c>>) * (1 - w.data[r + 1]) + fc.element.data[c + 1] * w.data[r + 1]
           /\ \A i \in 0..(n - 1) :
                 OneHotAt(w, i)
                 => \A r \in 0..(n - 1) :
                       Row(fc.new_arr, r) = IF r = i THEN fc.element ELSE Row(fc.arr, r)

C15_Witness ==
    /\ fc.fn = "assign_index_vectored"
    /\ fc.called
    /\ fc.arr.shape[1] = Bandwidth + 1
    /\ OneHotAt(fc.index, 1)
    /\ Row(fc.arr, 1) # fc.element
    /\ Row(fc.new_arr, 1) = fc.element
    /\ Row(fc.new_arr, 0) = Row(fc.arr, 0)
    /\ Row(fc.new_arr, Bandwidth) = Row(fc.arr, Bandwidth)

C15_WitnessBlend ==
    /\ fc.fn = "assign_index_vectored"
    /\ fc.called
    /\ \A k \in 1..Len(fc.index.data) : fc.index.data[k] = MaxWeight
    /\ fc.new_arr # fc.arr

C15_WitnessInteger ==
    /\ fc.fn = "assign_index"
    /\ fc.called
    /\ fc.index = 1
    /\ Row(fc.arr, 1) # fc.element
    /\ Row(fc.new_arr, 1) = fc.element

----------------------------------------------------------------------------
\* Operators on two indexed axes (SpecTensor2d)

\* arr[i, j, :]
Cell(arr, i, j) == Row(Row(arr, i), j)

\* C16: for every rank-3 array arr (any stored values, negative ones
\* included) and one-hot x_index = onehot(i), y_index = onehot(j),
\* tensor_lookup_2d(arr, x_index, y_index) equals the stored slice arr[i, j, :].
C16_Lookup2dReadsCell ==
    (fc.fn = "tensor_lookup_2d" /\ fc.called)
    => \A i \in 0..(Bandwidth - 1), j \in 0..Bandwidth :
          (OneHotAt(fc.x_index, i) /\ OneHotAt(fc.y_index, j))
          => fc.element = Cell(fc.arr, i, j)

\* What the lookup returns: the stored slice with negative entries replaced by 0
C16_Lookup2dReadsPositivePart ==
    (fc.fn = "tensor_lookup_2d" /\ fc.called)
    => \A i \in 0..(Bandwidth - 1), j \in 0..Bandwidth :
          (OneHotAt(fc.x_index, i) /\ OneHotAt(fc.y_index, j))
          => LET cell == Cell(fc.arr, i, j)
             IN  fc.element = Tensor(cell.shape, [c \in 1..Len(cell.data) |->
                                                     Max2(cell.data[c], 0)])

\* C17: tensor_write_2d(arr, element, x_index, y_index) returns
\* (1-mask)*arr + mask*element with mask the outer product of x_index and
\* y_index; for one-hot x_index = onehot(i), y_index = onehot(j) cell [i, j, :]
\* of the result is element and every other cell is the cell of arr.
C17_Write2dBlends ==
    (fc.fn = "tensor_write_2d" /\ fc.called)
    => /\ fc.new_arr.shape = fc.arr.shape
       /\ \A i \in 0..(Bandwidth - 1), j \in 0..Bandwidth, c \in 0..(Width - 1) :
             LET mask == fc.x_index.data[i + 1] * fc.y_index.data[j + 1]
             IN  At(fc.new_arr, <<i, j, c>>)
                 = (1 - mask) * At(fc.arr, <<i, j, c>>) + mask * fc.element.data[c + 1]
       /\ \A i \in 0..(Bandwidth - 1), j \in 0..Bandwidth :
             (OneHotAt(fc.x_index, i) /\ OneHotAt(fc.y_index, j))
             => \A p \in 0..(Bandwidth - 1), q \in 0..Bandwidth :
                   Cell(fc.new_arr, p, q)
                   = IF p = i /\ q = j THEN fc.element ELSE Cell(fc.arr, p, q)

C17_Witness ==
    /\ fc.fn = "tensor_write_2d"
    /\ fc.called
    /\ OneHotAt(fc.x_index, 1)
    /\ OneHotAt(fc.y_index, Bandwidth)
    /\ Cell(fc.arr, 1, Bandwidth) # fc.element
    /\ Cell(fc.new_arr, 1, Bandwidth) = fc.element
    /\ Cell(fc.new_arr, 0, Bandwidth) = Cell(fc.arr, 0, Bandwidth)
    /\ Cell(fc.new_arr, 1, 0) = Cell(fc.arr, 1, 0)

C17_WitnessBlend ==
    /\ fc.fn = "tensor_write_2d"
    /\ fc.called
    /\ ~IsOneHot(fc.x_index)
    /\ ~IsOneHot(fc.y_index)
    /\ \A i \in 0..(Bandwidth - 1), j \in 0..Bandwidth : Cell(fc.new_arr, i, j) # Cell(fc.arr, i, j)

----------------------------------------------------------------------------
\* Shape matching (SpecShapes)

\* The argument match_shapes treats as the lower-rank one, and the other
LowArg == IF tf_rank(fc.x) > tf_rank(fc.y) THEN fc.y ELSE fc.x

HighArg == IF tf_rank(fc.x) > tf_rank(fc.y) THEN fc.x ELSE fc.y

\* C18: match_shapes(x, y) fails exactly when the shape of the lower-rank
\* argument is not a dimension-wise prefix of the shape of the higher-rank
\* argument; otherwise it returns (high, low_reshaped): high unchanged, and
\* low with its own shape followed by rank(high)-rank(low) axes of size 1
\* (for equal ranks the shapes must be identical).
C18_MatchShapes ==
    (fc.fn = "match_shapes" /\ fc.called)
    => /\ (fc.result = Failed) <=> ~IsPrefix(LowArg.shape, HighArg.shape)
       /\ tf_rank(fc.x) = tf_rank(fc.y) => (fc.result = Failed <=> fc.x.shape # fc.y.shape)
       /\ fc.result # Failed
          => /\ fc.result[1] = HighArg
             /\ fc.result[2].data = LowArg.data
             /\ Len(fc.result[2].shape) = tf_rank(HighArg)
             /\ \A d \in 1..tf_rank(HighArg) :
                   fc.result[2].shape[d] = IF d <= tf_rank(LowArg) THEN LowArg.shape[d] ELSE 1

C18_Witness ==
    /\ fc.fn = "match_shapes"
    /\ fc.called
    /\ fc.x.shape = <<Bandwidth, Bandwidth, Bandwidth>>
    /\ fc.y.shape = <<Bandwidth>>
    /\ fc.result[1] = fc.x
    /\ fc.result[2] = Tensor(<<Bandwidth, 1, 1>>, fc.y.data)

C18_WitnessFails ==
    /\ fc.fn = "match_shapes"
    /\ fc.called
    /\ fc.x.shape = <<1, Bandwidth>>
    /\ fc.y.shape = <<Bandwidth, Bandwidth, 1>>
    /\ fc.result = Failed

----------------------------------------------------------------------------
\* The asymmetric lookup (SpecAsym)

Abs(x) == IF x < 0 THEN -x ELSE x

Sq(x) == x * x

\* C19: for a value array v and a weight array k of the same 2-D shape, the
\* forward result of asymmetrical_vectored_lookup(v, k) at each row r is
\* v[r, c] where c is the column of the maximum of k[r].
C19_ForwardIsArgmax ==
    (fc.fn = "asymmetrical_vectored_lookup" /\ fc.called)
    => /\ fc.forward_result.shape = <<Bandwidth>>
       /\ \A r \in 0..(Bandwidth - 1) :
             \E c \in 0..(Width - 1) :
                /\ \A j \in 0..(Width - 1) : At(fc.k, <<r, j>>) <= At(fc.k, <<r, c>>)
                /\ fc.forward_result.data[r + 1] = At(fc.v, <<r, c>>)

C19_Witness ==
    /\ fc.fn = "asymmetrical_vectored_lookup"
    /\ fc.called
    /\ Row(fc.k, 0) = tf_one_hot(1, Width)
    /\ Row(fc.k, 1) = tf_one_hot(0, Width)
    /\ At(fc.v, <<0, 1>>) # At(fc.v, <<0, 0>>)
    /\ fc.forward_result.data[1] = At(fc.v, <<0, 1>>)
    /\ fc.forward_result.data[2] = At(fc.v, <<1, 0>>)

\* C20: the backward rule returns, for every row r with upstream gradient
\* g[r], a k-gradient equal to |g[r]| times the vector that is -1 at the
\* column of v[r] nearest (least squared difference) to
\* forward_result[r] - g[r] and +1 at every other column, and a v-gradient
\* equal to g[r] * k[r].
C20_BackwardRule ==
    (fc.fn = "asymmetrical_vectored_lookup" /\ fc.backward)
    => /\ fc.v_grad.shape = fc.k.shape
       /\ fc.k_grad.shape = fc.k.shape
       /\ \A r \in 0..(Bandwidth - 1) :
             LET g      == fc.upstream_grads.data[r + 1]
                 target == fc.forward_result.data[r + 1] - g
             IN  /\ \A c \in 0..(Width - 1) :
                       At(fc.v_grad, <<r, c>>) = g * At(fc.k, <<r, c>>)
                 /\ \E d \in 0..(Width - 1) :
                       /\ \A j \in 0..(Width - 1) :
                             Sq(At(fc.v, <<r, d>>) - target) <= Sq(At(fc.v, <<r, j>>) - target)
                       /\ \A c \in 0..(Width - 1) :
                             At(fc.k_grad, <<r, c>>) = Abs(g) * (IF c = d THEN -1 ELSE 1)

\* A backward pass that pushes towards a column other than the one read
C20_Witness ==
    /\ fc.fn = "asymmetrical_vectored_lookup"
    /\ fc.backward
    /\ Row(fc.k, 0) = tf_one_hot(0, Width)
    /\ fc.upstream_grads.data[1] = -MaxVal
    /\ fc.upstream_grads.data[2] = 1
    /\ fc.forward_result.data[1] = At(fc.v, <<0, 0>>)
    /\ At(fc.v, <<0, 1>>) = At(fc.v, <<0, 0>>) + 1
    /\ At(fc.k_grad, <<0, 0>>) = MaxVal
    /\ At(fc.k_grad, <<0, 1>>) = -MaxVal
    /\ At(fc.k_grad, <<1, 0>>) \in {1, -1}
    /\ Row(fc.v_grad, 0) = tf_multiply(Scalar(-MaxVal), Row(fc.k, 0))
    /\ Row(fc.v_grad, 1) = Row(fc.k, 1)

----------------------------------------------------------------------------
\* Gradients of the weighted-sum lookup (SpecGradient)

\* The gradient with respect to the array is the weight of each row, repeated
\* over the row's entries
GradArrIsWeights ==
    /\ fc.grad_arr.shape = fc.arr.shape
    /\ \A k \in 1..Len(fc.arr.data) :
          fc.grad_arr.data[k]
          = fc.indices.data[((k - 1) \div Prod(Tail(fc.arr.shape))) + 1]

\* C21: superposition_lookup_vectored(A, w) is linear in each argument: its
\* gradient with respect to A equals w broadcast to A's trailing shape, and
\* its gradient with respect to w equals A.
C21_GradientIsArray ==
    (fc.fn = "superposition_lookup_vectored" /\ fc.called)
    => /\ GradArrIsWeights
       /\ fc.grad_indices = fc.arr

\* C21 (amended): the gradient with respect to A equals w broadcast to A's
\* trailing shape; the gradient with respect to w is a vector of length
\* bandwidth whose entry i is the sum of the entries of A[i] (it equals A
\* when A is 1-D); doubling A doubles the result.
C21_GradientIsRowSums ==
    (fc.fn = "superposition_lookup_vectored" /\ fc.called)
    => /\ GradArrIsWeights
       /\ fc.grad_indices.shape = <<fc.arr.shape[1]>>
       /\ \A i \in 1..fc.arr.shape[1] :
             fc.grad_indices.data[i] = TotalOf(Row(fc.arr, i - 1))
       /\ tf_rank(fc.arr) = 1 => fc.grad_indices = fc.arr
       /\ superposition_lookup_vectored(tf_multiply(Scalar(2), fc.arr), fc.indices)
          = tf_multiply(Scalar(2), fc.z)

C21_Witness ==
    /\ fc.fn = "superposition_lookup_vectored"
    /\ fc.called
    /\ tf_rank(fc.arr) = 2
    /\ fc.indices.data[1] # fc.indices.data[2]
    /\ At(fc.grad_arr, <<0, 0>>) = fc.indices.data[1]
    /\ At(fc.grad_arr, <<1, 0>>) = fc.indices.data[2]
    /\ fc.grad_indices.data[1] = At(fc.arr, <<0, 0>>) + At(fc.arr, <<0, 1>>)
    /\ fc.grad_indices.data[1] # fc.grad_indices.data[2]

----------------------------------------------------------------------------
\* Residual lookup (SpecResidual)

\* i is an integer nearest to the position p
IsNearest(i, p) == 2 * Abs(p - i * One) <= One

\* C23: for every array arr and every index whose rounding is in range,
\* residual_lookup(arr, index) returns (arr[round(index)], index -
\* round(index)): the first component is an element stored in arr and equals
\* naive_lookup(arr, index), and the residue has absolute value at most 1/2.
C23_ResidualLookup ==
    (/\ fc.fn = "residual_lookup"
     /\ fc.called
     /\ \E i \in 0..(fc.arr.shape[1] - 1) : fc.index - fc.residue = i * One)
    => /\ \E i \in 0..(fc.arr.shape[1] - 1) :
             /\ IsNearest(i, fc.index)
             /\ fc.result = Row(fc.arr, i)
             /\ fc.residue = fc.index - i * One
       /\ 2 * Abs(fc.residue) <= One
       /\ fc.naive_called => fc.z = fc.result

C23_Witness ==
    /\ fc.fn = "residual_lookup"
    /\ fc.called
    /\ fc.naive_called
    /\ fc.index > (Bandwidth - 2) * One
    /\ fc.index < (Bandwidth - 1) * One
    /\ fc.residue < 0
    /\ tf_rank(fc.arr) = 2
    /\ fc.result = Row(fc.arr, Bandwidth - 1)
    /\ fc.result # Row(fc.arr, Bandwidth - 2)
    /\ fc.z = fc.result

----------------------------------------------------------------------------
\* Popping an empty stack (SpecFromBuffer)

\* C25: stack_pop on a stack whose position is one-hot at index 0 (an empty
\* stack, such as one just built by new_stack_from_buffer) does not fail: the
\* position wraps to one-hot at bandwidth-1 and the returned element is
\* buffer row bandwidth-1; a second pop returns row bandwidth-2.
C25_PopOnEmptyWraps ==
    (Len(log) >= 1 /\ log[1].op = "pop")
    => /\ ~IsError(log[1].element)
       /\ log[1].element = Row(stack0[1], Bandwidth - 1)
       /\ Len(log) = 1 => OneHotAt(stack[2], Bandwidth - 1) /\ stack[1] = stack0[1]
       /\ (Len(log) >= 2 /\ log[2].op = "pop")
          => /\ log[2].element = Row(stack0[1], Bandwidth - 2)
             /\ Len(log) = 2 => OneHotAt(stack[2], Bandwidth - 2)

C25_Witness ==
    /\ Len(log) = 2
    /\ log[1].op = "pop"
    /\ log[2].op = "pop"
    /\ OneHotAt(stack0[2], 0)
    /\ log[1].element = Row(stack0[1], Bandwidth - 1)
    /\ log[2].element = Row(stack0[1], Bandwidth - 2)
    /\ log[1].element # log[2].element
    /\ OneHotAt(stack[2], Bandwidth - 2)

----------------------------------------------------------------------------
\* The two stacks in step (SpecBoth)

\* C26: on every sequence of pushes and pops that keeps the depth within
\* [0, bandwidth], the stack with a position vector and the stack with an
\* integer index agree: after each step the buffers are equal, the position
\* is onehot(index mod bandwidth), and every popped element is the same.
C26_StacksAgree ==
    fc.fn = "legacy"
    => /\ fc.state[2] \in 0..Bandwidth
       /\ stack[1] = fc.state[1]
       /\ OneHotAt(stack[2], fc.state[2] % Bandwidth)
       /\ (Len(log) >= 1 /\ LastCall(log).op = "pop")
          => /\ ~IsError(fc.element)
             /\ LastCall(log).element = fc.element

\* A full stack (index = bandwidth, position wrapped to 0), then a pop
C26_Witness ==
    /\ fc.fn = "legacy"
    /\ Len(log) = Bandwidth + 1
    /\ \A j \in 1..Bandwidth : log[j].op = "push"
    /\ log[Bandwidth + 1].op = "pop"
    /\ log[1].element # log[Bandwidth].element
    /\ fc.state[2] = Bandwidth - 1
    /\ fc.element = log[Bandwidth].element
    /\ log[Bandwidth + 1].element = log[Bandwidth].element
    /\ stack0[1] # stack[1]

----------------------------------------------------------------------------
\* Training the input of reverse_list (SpecTrain)

\* The loss returned by a training step is at most the loss returned by the
\* step before it
LossNeverRises ==
    [][(fc.fn = "train_step" /\ fc.i >= 1) => fc'.loss <= fc.loss]_vars

\* The rounded input is the target's reversal
InputIsReversal ==
    /\ fc.fn = "train_step"
    /\ \A r \in 0..(Bandwidth - 1) :
          Row(tf_round_tensor(fc.x), r) = Row(fc.y, Bandwidth - 1 - r)

\* The rounded output of reverse_list is the target, and the rounded input is
\* the target's reversal
TrainedToTarget ==
    /\ InputIsReversal
    /\ tf_round_tensor(reverse_list(fc.x)) = fc.y

\* The loss that the last step returned is below a hundredth of the loss of
\* an array that is off by one in every entry
SmallLoss == 100 * fc.loss < ((Bandwidth * Width) * Unit) \div 2

----------------------------------------------------------------------------
\* Training the weights of asymmetrical_vectored_lookup (SpecAsymTrain)

\* The last forward result is the target in every row, and the k-gradient
\* that came back is zero
AsymMatched ==
    /\ fc.fn = "asymmetrical_vectored_lookup training"
    /\ fc.called
    /\ fc.out = fc.target
    /\ fc.k_grad = tf_zeros(tf_shape(fc.k))

\* A step whose forward result is the target in every row leaves k as it is
MatchedStepKeepsK ==
    [][(fc.fn = "asymmetrical_vectored_lookup training" /\ fc'.out = fc'.target)
          => (fc'.k = fc.k /\ fc'.k_grad = tf_zeros(tf_shape(fc.k)))]_vars

====
